---- MODULE Spec2Model ----
(***************************************************************************)
(* A model of geopandas' spatial join (geopandas/tools/sjoin.py).          *)
(*                                                                         *)
(* One behaviour is one call of sjoin or sjoin_nearest: Init draws the     *)
(* arguments, every action is one statement group of the call, in program  *)
(* order, and the call ends in pc = "done" with either a returned table    *)
(* or a raised error.                                                      *)
(*                                                                         *)
(* Values.  A row label is a tuple of integers, one per index level (the   *)
(* label 5 of a single-level index is <<5>>); a position produced by       *)
(* np.arange is the one-element tuple of that integer and the sentinel of  *)
(* an outer join is <<-1>>.  An optional value (None, NaN) is the empty    *)
(* tuple, a present value v is <<v>>.  A geometry is the set of integer    *)
(* points it covers.  A frame built by the join keeps, for each of its     *)
(* rows, the positions (1-based) of the source rows it was taken from, and *)
(* for each of its columns its name and the source column it holds.        *)
(***************************************************************************)
EXTENDS Integers, Sequences, FiniteSets, TLC

VARIABLES call, pc, error, warned, sindex_built, indices, distances,
          ldf, rdf, joined, result

\* The caller's two tables as they are now, and the state of a call of
\* overlay: its arguments, its position, its locals df1 and df2, the
\* primitives it has still to run, the tables they have returned, and the
\* table it returns.
VARIABLES inputs, ocall, opc, df1, df2, pending, parts, oresult

\* The other tools, collect, _hilbert_distance and _write_postgis: the
\* arguments of the call, its position, the error it raised, the value it
\* returned, and the tables of the database with their rows.
VARIABLES tcall, tpc, terror, tresult, db

\* The variables of the join.
jvars == <<call, pc, error, warned, sindex_built, indices, distances,
           ldf, rdf, joined, result>>

\* The variables of overlay.
ovars == <<ocall, opc, df1, df2, pending, parts, oresult>>

\* The variables of the other tools.
tvars == <<tcall, tpc, terror, tresult, db>>

vars == <<call, pc, error, warned, sindex_built, indices, distances,
          ldf, rdf, joined, result, inputs, ocall, opc, df1, df2, pending,
          parts, oresult, tcall, tpc, terror, tresult, db>>

\* ------------------------------------------------------------------ bounds
\* The largest number of rows of an input table.
MaxRows == 2

\* ------------------------------------------------------------------ values
None == <<>>
NaN == <<>>
Sentinel == <<-1>>

Range(f) == {f[i] : i \in DOMAIN f}

RECURSIVE Flatten(_)
Flatten(ss) ==
    IF ss = <<>> THEN <<>> ELSE Head(ss) \o Flatten(Tail(ss))

\* The positions at which the mask is true, in ascending order.
Where(mask) ==
    LET test(i) == mask[i]
    IN  SelectSeq([i \in 1..Len(mask) |-> i], test)

\* ------------------------------------------------------------- input tables
Geoms == {{0}, {1}, {0, 1}}

IndexKinds == {"range", "shift", "dup", "multi"}

\* The labels of an index of n rows: the default range 0..n-1, the labels
\* 1..n, one repeated label, or a two-level index.
IndexLabels(kind, n) ==
    CASE kind = "range" -> [i \in 1..n |-> <<i - 1>>]
      [] kind = "shift" -> [i \in 1..n |-> <<i>>]
      [] kind = "dup"   -> [i \in 1..n |-> <<0>>]
      [] kind = "multi" -> [i \in 1..n |-> <<0, i - 1>>]

\* The names of its levels: unnamed, or (None, "k") for the two-level index.
IndexNames(kind) ==
    IF kind = "multi" THEN <<None, <<"k">>>> ELSE <<None>>

\* A table: gdf says whether it is a GeoDataFrame; columns holds the
\* attribute columns followed by the geometry column; row i has the label
\* index[i], the geometry geometry[i] and the value attr[i] in every
\* attribute column.
Table(isGdf, crs, kind, cols, geoms, attrs) ==
    [gdf |-> isGdf, crs |-> crs, names |-> IndexNames(kind),
     index |-> IndexLabels(kind, Len(geoms)),
     columns |-> cols \o <<"geometry">>,
     geometry |-> geoms, attr |-> attrs]

NRows(df) == Len(df.geometry)

Cell(df, i, c) == IF c = "geometry" THEN <<df.geometry[i]>> ELSE df.attr[i]

GeomSeqs == UNION {[1..n -> Geoms] : n \in 0..MaxRows}

Ones(n) == [i \in 1..n |-> <<1>>]

\* --------------------------------------------------------------- errors
NoError == [type |-> "none", at |-> ""]
Raise(type, at) == [type |-> type, at |-> at]

\* ------------------------------------------------ geometry and spatial index
\* The distance between two geometries: the least gap between their points.
Abs(n) == IF n < 0 THEN -n ELSE n
Distance(a, b) ==
    CHOOSE d \in {Abs(p - q) : p \in a, q \in b} :
        \A e \in {Abs(p - q) : p \in a, q \in b} : d <= e

\* Whether the binary predicate holds of an input and a tree geometry.
Holds(predicate, distance, a, b) ==
    CASE predicate = "intersects" -> a \cap b # {}
      [] predicate = "dwithin"    -> Distance(a, b) <= distance[1]

\* sindex.query(geometry, predicate[, distance]) on the right table's spatial
\* index: every position pair (input, tree) on which the predicate holds,
\* in ascending order of the input position, then of the tree position.
SindexQuery(left_df, right_df, predicate, distance) ==
    Flatten([l \in 1..NRows(left_df) |->
        LET hit(r) == Holds(predicate, distance,
                            left_df.geometry[l], right_df.geometry[r])
            rs == Where([ix \in 1..NRows(right_df) |-> hit(ix)])
        IN  [k \in 1..Len(rs) |-> [l |-> l, r |-> rs[k]]]])

\* sindex.nearest(geometry, max_distance, return_distance=True, exclusive):
\* for each input position the tree positions at the least distance (all of
\* them when several tie), among those within max_distance when it is given
\* and not equal to the input geometry when exclusive; with each pair its
\* distance.
SindexNearest(left_df, right_df, max_distance, exclusive) ==
    Flatten([l \in 1..NRows(left_df) |->
        LET g == left_df.geometry[l]
            cand(r) ==
                /\ max_distance = None
                      \/ Distance(g, right_df.geometry[r]) <= max_distance[1]
                /\ exclusive => right_df.geometry[r] # g
            near(r) ==
                /\ cand(r)
                /\ \A q \in 1..NRows(right_df) :
                      cand(q) => Distance(g, right_df.geometry[r])
                                   <= Distance(g, right_df.geometry[q])
            rs == Where([ix \in 1..NRows(right_df) |-> near(ix)])
        IN  [k \in 1..Len(rs) |->
                [l |-> l, r |-> rs[k],
                 d |-> Distance(g, right_df.geometry[rs[k]])]]])

\* _check_crs: whether the two reference systems are the same.
_check_crs(left, right) == left = right

\* -------------------------------------------------------------- _basic_checks
\* _basic_checks without its check of how.
_basic_checks_no_how(left_df, right_df, how, lsuffix, rsuffix, on_attribute) ==
    LET left_cols == Range(left_df.columns)
        right_cols == Range(right_df.columns)
    IN  IF ~left_df.gdf THEN Raise("ValueError", "left_df")
        ELSE IF ~right_df.gdf THEN Raise("ValueError", "right_df")
        ELSE IF ("index_" \o lsuffix) \in left_cols
            THEN Raise("ValueError", "index_left")
        ELSE IF ("index_" \o rsuffix) \in right_cols
            THEN Raise("ValueError", "index_right")
        ELSE IF \E k \in 1..Len(on_attribute) :
                    \/ on_attribute[k] \notin left_cols
                    \/ on_attribute[k] \notin right_cols
            THEN Raise("ValueError", "on_attribute")
        ELSE NoError

\* The error _basic_checks raises, NoError when it returns.
_basic_checks(left_df, right_df, how, lsuffix, rsuffix, on_attribute) ==
    LET index_left == "index_" \o lsuffix
        index_right == "index_" \o rsuffix
        left_cols == Range(left_df.columns)
        right_cols == Range(right_df.columns)
    IN  IF ~left_df.gdf THEN Raise("ValueError", "left_df")
        ELSE IF ~right_df.gdf THEN Raise("ValueError", "right_df")
        ELSE IF how \notin {"left", "right", "inner"}
            THEN Raise("ValueError", "how")
        ELSE IF index_left \in left_cols
            THEN Raise("ValueError", "index_left")
        ELSE IF index_right \in right_cols
            THEN Raise("ValueError", "index_right")
        ELSE IF \E k \in 1..Len(on_attribute) :
                    \/ on_attribute[k] \notin left_cols
                    \/ on_attribute[k] \notin right_cols
            THEN Raise("ValueError", "on_attribute")
        ELSE NoError

\* ------------------------------------------------------ _geom_predicate_query
\* df.loc[labels] on a table or frame: for each requested label, in order,
\* the positions of the rows that carry it (every one of them when the label
\* is repeated in the index); Missing when a label is not in the index.
LocRows(index, labels) ==
    Flatten([k \in 1..Len(labels) |->
        LET has(i) == index[i] = labels[k]
        IN  Where([ix \in 1..Len(index) |-> has(ix)])])

Missing(index, labels) ==
    \E k \in 1..Len(labels) : labels[k] \notin Range(index)

\* Equality of two cells as the == of two frames computes it: a missing
\* value equals nothing, itself included.
CellEq(a, b) == a # NaN /\ b # NaN /\ a = b

\* The pairs of row labels _geom_predicate_query returns, or the error it
\* raises.
_geom_predicate_query(left_df, right_df, predicate, distance, on_attribute) ==
    LET matches == SindexQuery(left_df, right_df, predicate, distance)
        left_index == [k \in 1..Len(matches) |-> left_df.index[matches[k].l]]
        right_index == [k \in 1..Len(matches) |-> right_df.index[matches[k].r]]
        pairs(keep) ==
            [k \in 1..Len(keep) |->
                [l |-> left_index[keep[k]], r |-> right_index[keep[k]]]]
        \* left_df.loc[left_index, on_attribute] and its right counterpart
        lrows == LocRows(left_df.index, left_index)
        rrows == LocRows(right_df.index, right_index)
        llabels == [j \in 1..Len(lrows) |-> left_df.index[lrows[j]]]
        rlabels == [j \in 1..Len(rrows) |-> right_df.index[rrows[j]]]
        attribute_match(j) ==
            \A a \in 1..Len(on_attribute) :
                CellEq(Cell(left_df, lrows[j], on_attribute[a]),
                       Cell(right_df, rrows[j], on_attribute[a]))
    IN  IF predicate = "dwithin" /\ distance = None
            THEN [error |-> Raise("ValueError", "distance"), indices |-> <<>>]
        ELSE IF on_attribute = <<>>
            THEN [error |-> NoError,
                  indices |-> pairs([k \in 1..Len(matches) |-> k])]
        \* == of two frames that are not identically labelled
        ELSE IF llabels # rlabels
            THEN [error |-> Raise("ValueError", "compare"), indices |-> <<>>]
        \* a boolean mask of another length than the index it selects from
        ELSE IF Len(lrows) # Len(matches)
            THEN [error |-> Raise("IndexError", "mask"), indices |-> <<>>]
        ELSE [error |-> NoError,
              indices |-> pairs(Where([ix \in 1..Len(matches) |-> attribute_match(ix)]))]

\* ----------------------------------------------------------- _adjust_indexers
\* np.arange(n), as labels.
Arange(n) == [i \in 1..n |-> <<i - 1>>]

\* numpy broadcasting of two one-dimensional arrays of lengths n and k.
Broadcastable(n, k) == n = k \/ n = 1 \/ k = 1
BroadcastLen(n, k) == IF n = 1 THEN k ELSE n
At(a, j) == IF Len(a) = 1 THEN a[1] ELSE a[j]

\* The pair list and the distances _adjust_indexers returns, or its error.
_adjust_indexers(idx, dist, original_length, how, predicate) ==
    LET key_left == [k \in 1..Len(idx) |-> idx[k].l]
        key_right == [k \in 1..Len(idx) |-> idx[k].r]
        positions == Arange(original_length)
        n == BroadcastLen(original_length, Len(idx))
        \* np.isin(np.arange(original_length), keys)
        mask(keys) == [i \in 1..original_length |-> positions[i] \in Range(keys)]
        adjusted(m, ifl, elsel, ifr, elser) ==
            [j \in 1..n |->
                [l |-> IF At(m, j) THEN At(ifl, j) ELSE At(elsel, j),
                 r |-> IF At(m, j) THEN At(ifr, j) ELSE At(elser, j)]]
        fill == [i \in 1..original_length |-> Sentinel]
        out(m, pairs) ==
            IF dist # None /\ predicate = "dwithin"
            THEN IF Broadcastable(original_length, Len(dist[1]))
                 THEN [error |-> NoError, indices |-> pairs,
                       distances |-> <<[j \in 1..BroadcastLen(original_length,
                                                              Len(dist[1])) |->
                                          IF At(m, j) THEN <<At(dist[1], j)>>
                                          ELSE NaN]>>]
                 ELSE [error |-> Raise("ValueError", "broadcast"),
                       indices |-> <<>>, distances |-> None]
            ELSE [error |-> NoError, indices |-> pairs, distances |-> None]
    IN  IF how = "inner"
            THEN [error |-> NoError, indices |-> idx, distances |-> dist]
        ELSE IF how = "left"
            THEN IF Broadcastable(original_length, Len(idx))
                 THEN out(mask(key_left),
                          adjusted(mask(key_left), key_left, positions,
                                   key_right, fill))
                 ELSE [error |-> Raise("ValueError", "broadcast"),
                       indices |-> <<>>, distances |-> None]
        ELSE IF how = "right"
            THEN IF Broadcastable(original_length, Len(idx))
                 THEN out(mask(key_right),
                          adjusted(mask(key_right), key_left, fill,
                                   key_right, positions))
                 ELSE [error |-> Raise("ValueError", "broadcast"),
                       indices |-> <<>>, distances |-> None]
        \* no branch binds the adjusted arrays
        ELSE [error |-> Raise("UnboundLocalError", "how"),
              indices |-> <<>>, distances |-> None]

\* --------------------------------------------------------------------- frames
\* A frame of the join: columns and src give each column's name and the
\* source column it holds; row i has the label index[i] and was taken from
\* the source rows rows[i].l (left table) and rows[i].r (right table), None
\* where the side is missing.
DataCol(side, name) == [side |-> side, kind |-> "data", key |-> name, level |-> 0]
LevelCol(side, i) == [side |-> side, kind |-> "index", key |-> "", level |-> i]

\* df.copy() of an input table, as a frame.
Frame(df, side) ==
    [side |-> side,
     columns |-> df.columns,
     src |-> [i \in 1..Len(df.columns) |-> DataCol(side, df.columns[i])],
     names |-> df.names,
     index |-> df.index,
     rows |-> [i \in 1..NRows(df) |->
                 IF side = "left" THEN [l |-> <<i>>, r |-> None]
                 ELSE [l |-> None, r |-> <<i>>]]]

NoFrame ==
    [side |-> "", columns |-> <<>>, src |-> <<>>, names |-> <<>>,
     index |-> <<>>, rows |-> <<>>]

\* The value a column holds in a row of a frame.
CellValue(c, row, dist, left_df, right_df) ==
    LET df == IF c.side = "left" THEN left_df ELSE right_df
        pos == IF c.side = "left" THEN row.l ELSE row.r
    IN  IF c.side = "distance" THEN dist
        ELSE IF pos = None THEN NaN
        ELSE IF c.kind = "index" THEN <<df.index[pos[1]][c.level]>>
        ELSE Cell(df, pos[1], c.key)

\* The first of new_name_0, new_name_1, ... that is not in column_names.
RECURSIVE FirstFree(_, _, _)
FirstFree(new_name, column_names, i) ==
    IF (new_name \o "_" \o ToString(i)) \in column_names
    THEN FirstFree(new_name, column_names, i + 1)
    ELSE new_name \o "_" \o ToString(i)

\* ---------------------------------------------------- _reset_index_with_suffix
_reset_index_with_suffix(df, suffix, other) ==
    LET nlevels == Len(df.names)
        own == Range(df.columns)
        others == Range(other.columns)
        reset(cols) ==
            [df EXCEPT !.columns = cols \o df.columns,
                       !.src = [i \in 1..nlevels |-> LevelCol(df.side, i)] \o df.src,
                       !.names = <<None>>,
                       !.index = Arange(Len(df.index))]
        \* the names reset_index() gives the levels of a MultiIndex
        default_columns ==
            [i \in 1..nlevels |->
                IF df.names[i] = None THEN "level_" \o ToString(i - 1)
                ELSE df.names[i][1]]
        new_columns ==
            [i \in 1..nlevels |->
                IF df.names[i] = None
                THEN "level_" \o ToString(i - 1) \o "_" \o suffix
                ELSE df.names[i][1] \o "_" \o suffix]
        index_name == IF df.names[1] = None THEN "index" ELSE df.names[1][1]
        new_name == index_name \o "_" \o suffix
        unique_name ==
            IF new_name \in others THEN FirstFree(new_name, others, 0)
            ELSE new_name
    IN  IF nlevels > 1
        THEN IF Range(default_columns) \cap own # {}
             THEN [error |-> Raise("ValueError", "cannot insert"), df |-> df]
             ELSE [error |-> NoError, df |-> reset(new_columns)]
        ELSE IF unique_name \in own
             THEN [error |-> Raise("ValueError", "cannot insert"), df |-> df]
             ELSE [error |-> NoError, df |-> reset(<<unique_name>>)]

\* ------------------------------------------- _process_column_names_with_suffix
_get_new_name(name, suffix, column_names) ==
    LET new_name == name \o suffix
    IN  IF new_name \in column_names
        THEN FirstFree(new_name, column_names, 0)
        ELSE new_name

\* The rename mappings of the two sides, each a function on the overlapping
\* names.
_process_column_names_with_suffix(left, right, suffixes) ==
    LET overlap == (Range(left) \cap Range(right)) \ {"geometry"}
    IN  IF left # right
        THEN [left |-> [name \in overlap |->
                            _get_new_name(name, suffixes[1], Range(left))],
              right |-> [name \in overlap |->
                            _get_new_name(name, suffixes[2], Range(right))]]
        ELSE [left |-> [name \in {} |-> ""], right |-> [name \in {} |-> ""]]

\* df.rename(columns=mapping)
Rename(df, mapping) ==
    [df EXCEPT !.columns =
        [i \in 1..Len(df.columns) |->
            IF df.columns[i] \in DOMAIN mapping THEN mapping[df.columns[i]]
            ELSE df.columns[i]]]

\* ---------------------------------------------------------------------- merge
\* keys.replace(-1, np.nan)
ReplaceSentinel(keys) ==
    [k \in 1..Len(keys) |-> IF keys[k] = Sentinel THEN NaN ELSE keys[k]]

\* df.loc[keys]: the rows of df that carry the labels keys, labelled by them.
Loc(df, keys) ==
    LET picked == LocRows(df.index, keys)
    IN  [df EXCEPT !.index = [j \in 1..Len(picked) |-> df.index[picked[j]]],
                   !.rows = [j \in 1..Len(picked) |-> df.rows[picked[j]]]]

\* The column labels of a merge: a name of both sides gets the side's suffix.
MergeLabels(cols, overlap, suffix) ==
    [i \in 1..Len(cols) |->
        IF cols[i] \in overlap THEN cols[i] \o suffix ELSE cols[i]]

\* The rows of left.merge(right, left_index=True, right_index=True, how):
\* a left row joins every right row with the same label; an outer side keeps
\* its rows without a partner.
MergeRows(left, right, how) ==
    LET same(i, j) == left.index[i] = right.index[j]
        both(i, j) == [index |-> left.index[i],
                       row |-> [l |-> left.rows[i].l, r |-> right.rows[j].r]]
        from_left(i) ==
            LET hit(j) == same(i, j)
                js == Where([ix \in 1..Len(right.index) |-> hit(ix)])
            IN  IF js = <<>> /\ how = "left"
                THEN <<[index |-> left.index[i],
                        row |-> [l |-> left.rows[i].l, r |-> None]]>>
                ELSE [k \in 1..Len(js) |-> both(i, js[k])]
        from_right(j) ==
            LET hit(i) == same(i, j)
                is == Where([ix \in 1..Len(left.index) |-> hit(ix)])
            IN  IF is = <<>>
                THEN <<[index |-> right.index[j],
                        row |-> [l |-> None, r |-> right.rows[j].r]]>>
                ELSE [k \in 1..Len(is) |-> both(is[k], j)]
    IN  IF how = "right"
        THEN Flatten([j \in 1..Len(right.index) |-> from_right(j)])
        ELSE Flatten([i \in 1..Len(left.index) |-> from_left(i)])

\* left.merge(right, left_index=True, right_index=True, how=how,
\* suffixes=suffixes), or the error it raises.
Merge(left, right, how, suffixes) ==
    LET overlap == Range(left.columns) \cap Range(right.columns)
        llabels == MergeLabels(left.columns, overlap, suffixes[1])
        rlabels == MergeLabels(right.columns, overlap, suffixes[2])
        merged == MergeRows(left, right, how)
    IN  IF overlap # {} /\ suffixes[1] = "" /\ suffixes[2] = ""
            THEN [error |-> Raise("ValueError", "columns overlap"),
                  df |-> NoFrame]
        ELSE IF \/ Cardinality(Range(llabels)) # Len(llabels)
                \/ Cardinality(Range(rlabels)) # Len(rlabels)
            THEN [error |-> Raise("MergeError", "suffixes"), df |-> NoFrame]
        ELSE [error |-> NoError,
              df |-> [side |-> "joined",
                      columns |-> llabels \o rlabels,
                      src |-> left.src \o right.src,
                      names |-> <<None>>,
                      index |-> [k \in 1..Len(merged) |-> merged[k].index],
                      rows |-> [k \in 1..Len(merged) |-> merged[k].row]]]

\* The join statement of _frame_join for each how.
PerformJoin(left_df, right_df, idx, how, lsuffix, rsuffix) ==
    LET key_left == [k \in 1..Len(idx) |-> idx[k].l]
        key_right == [k \in 1..Len(idx) |-> idx[k].r]
    IN  IF how = "left"
        THEN IF Missing(right_df.index, ReplaceSentinel(key_right))
             THEN [error |-> Raise("KeyError", "right_df.loc"), df |-> NoFrame]
             ELSE Merge(left_df, Loc(right_df, ReplaceSentinel(key_right)),
                        "left", <<"", rsuffix>>)
        ELSE IF how = "right"
        THEN IF Missing(left_df.index, ReplaceSentinel(key_left))
             THEN [error |-> Raise("KeyError", "left_df.loc"), df |-> NoFrame]
             ELSE Merge(Loc(left_df, ReplaceSentinel(key_left)), right_df,
                        "right", <<lsuffix, "">>)
        ELSE IF Missing(left_df.index, key_left)
             THEN [error |-> Raise("KeyError", "left_df.loc"), df |-> NoFrame]
        ELSE IF Missing(right_df.index, key_right)
             THEN [error |-> Raise("KeyError", "right_df.loc"), df |-> NoFrame]
        ELSE Merge(Loc(left_df, key_left), Loc(right_df, key_right),
                   "inner", <<lsuffix, rsuffix>>)

\* ------------------------------------------------------------- _restore_index
\* joined[name] = values: the frame with the column added, or the error of
\* an array whose length is not the frame's.
SetDistances(df, name, values) ==
    IF Len(values) # Len(df.rows)
    THEN [error |-> Raise("ValueError", "length of values"), df |-> df]
    ELSE [error |-> NoError,
          df |-> [side |-> df.side,
                  columns |-> IF name \in Range(df.columns) THEN df.columns
                              ELSE Append(df.columns, name),
                  src |-> IF name \in Range(df.columns)
                          THEN [i \in 1..Len(df.columns) |->
                                   IF df.columns[i] = name
                                   THEN DataCol("distance", name)
                                   ELSE df.src[i]]
                          ELSE Append(df.src, DataCol("distance", name)),
                  names |-> df.names,
                  index |-> df.index,
                  rows |-> [k \in 1..Len(df.rows) |->
                              [l |-> df.rows[k].l, r |-> df.rows[k].r,
                               d |-> values[k]]]]]

\* joined.set_index(index_names) and the restoring of the unnamed levels, or
\* the KeyError of set_index for a name that is no column of joined.
_restore_index(df, index_names, index_names_original, left_df, right_df) ==
    LET found(i) ==
            /\ index_names[i] # None
            /\ index_names[i][1] \in Range(df.columns)
        at(i) == CHOOSE c \in 1..Len(df.columns) :
                     df.columns[c] = index_names[i][1]
        keys == {at(i) : i \in 1..Len(index_names)}
        kept(c) == c \notin keys
        rest == Where([ix \in 1..Len(df.columns) |-> kept(ix)])
        dist(k) == IF "d" \in DOMAIN df.rows[k] THEN df.rows[k].d ELSE NaN
    IN  IF index_names = <<>> THEN [error |-> NoError, df |-> df]
        ELSE IF \E i \in 1..Len(index_names) : ~found(i)
            THEN [error |-> Raise("KeyError", "set_index"), df |-> df]
        ELSE [error |-> NoError,
              df |-> [df EXCEPT
                  !.columns = [j \in 1..Len(rest) |-> df.columns[rest[j]]],
                  !.src = [j \in 1..Len(rest) |-> df.src[rest[j]]],
                  !.names = [i \in 1..Len(index_names) |->
                                IF index_names_original[i] = None THEN None
                                ELSE index_names[i]],
                  !.index = [k \in 1..Len(df.rows) |->
                                Flatten([i \in 1..Len(index_names) |->
                                    CellValue(df.src[at(i)], df.rows[k],
                                              dist(k), left_df, right_df)])]]]

\* The statements of _frame_join after the join, and of its caller after it:
\* the distance column of a dwithin join, the restored index, and for
\* sjoin_nearest the column distance_col.
FinishJoin(df, dist, frame_predicate, index_names, distance_col, raw, left_df, right_df) ==
    LET with_distance ==
            IF dist # None /\ frame_predicate = "dwithin"
            THEN SetDistances(df, "distance", dist[1])
            ELSE [error |-> NoError, df |-> df]
        restored ==
            _restore_index(with_distance.df, index_names, index_names,
                           left_df, right_df)
    IN  IF with_distance.error # NoError THEN with_distance
        ELSE IF restored.error # NoError THEN restored
        ELSE IF distance_col # None
            THEN SetDistances(restored.df, distance_col[1], raw)
        ELSE restored

\* ------------------------------------------------------------------ the calls
Hows == {"inner", "left", "right", "outer"}
ColumnLists ==
    {<<>>, <<"x">>, <<"y">>, <<"x", "xleft">>, <<"index_left">>,
     <<"index_right">>}

\* No call, and no table.
NoCall == [fn |-> "none"]
NoTable == [gdf |-> FALSE]

\* The argument record of a call of sjoin.
SjoinCall(left_df, right_df, how, predicate, lsuffix, rsuffix, distance, on_attribute) ==
    [fn |-> "sjoin", left_df |-> left_df, right_df |-> right_df, how |-> how,
     predicate |-> predicate, lsuffix |-> lsuffix, rsuffix |-> rsuffix,
     distance |-> distance, on_attribute |-> on_attribute,
     max_distance |-> None, distance_col |-> None, exclusive |-> FALSE]

\* The argument record of a call of sjoin_nearest.
NearestCall(left_df, right_df, how, max_distance, lsuffix, rsuffix, distance_col, exclusive) ==
    [fn |-> "sjoin_nearest", left_df |-> left_df, right_df |-> right_df,
     how |-> how, predicate |-> "nearest", lsuffix |-> lsuffix,
     rsuffix |-> rsuffix, distance |-> None, on_attribute |-> <<>>,
     max_distance |-> max_distance, distance_col |-> distance_col,
     exclusive |-> exclusive]

\* Calls that vary the arguments the validation reads and the column names,
\* on tables of one row each; an argument that is no GeoDataFrame is a plain
\* frame.
ArgumentCall(c) ==
    \E lg \in BOOLEAN, rg \in BOOLEAN, lc \in ColumnLists, rc \in ColumnLists,
       crs \in {"EPSG:4326", "EPSG:3857"}, how \in Hows,
       lsuffix \in {"left", "l"} :
        LET left_df == Table(lg, "EPSG:4326", "range", lc, <<{0}>>, Ones(1))
            right_df == Table(rg, crs, "range", rc, <<{0}>>, Ones(1))
        IN  /\ ~lg => lc = <<"x">>
            /\ ~rg => rc = <<"x">> /\ crs = "EPSG:4326"
            /\ \/ \E predicate \in {"intersects", "dwithin"},
                      distance \in {None, <<1>>},
                      on_attribute \in {<<>>, <<"x">>, <<"y">>} :
                      c = SjoinCall(left_df, right_df, how, predicate, lsuffix,
                                    "right", distance, on_attribute)
               \/ \E max_distance \in {None, <<-1>>, <<0>>, <<1>>},
                      distance_col \in {None, <<"dist">>},
                      exclusive \in BOOLEAN :
                      c = NearestCall(left_df, right_df, how, max_distance,
                                      lsuffix, "right", distance_col, exclusive)

\* Calls that vary the rows, their geometries and their labels, with valid
\* arguments: one of the two tables has the default index.
RowCall(c) ==
    \E lk \in IndexKinds, rk \in {"range", "shift"},
       lg \in GeomSeqs, rg \in GeomSeqs, how \in {"inner", "left", "right"} :
        LET left_df == Table(TRUE, "EPSG:4326", lk, <<"x">>, lg, Ones(Len(lg)))
            right_df == Table(TRUE, "EPSG:4326", rk, <<"x">>, rg, Ones(Len(rg)))
        IN  /\ lk = "range" \/ rk = "range"
            /\ \/ c = SjoinCall(left_df, right_df, how, "intersects", "left",
                                 "right", None, <<>>)
               \/ \E max_distance \in {None, <<1>>} :
                      c = NearestCall(left_df, right_df, how, max_distance,
                                      "left", "right", <<"dist">>, FALSE)

\* The values of an attribute column: missing, or one of two numbers.
AttrValues == {NaN, <<1>>, <<2>>}

\* Calls of sjoin with on_attribute: every left row intersects every right
\* row, and the calls vary the values of the attribute and the row labels.
AttributeCall(c) ==
    \E n \in 1..MaxRows, m \in 1..MaxRows, lk \in {"range", "shift"} :
        \E la \in [1..n -> AttrValues], ra \in [1..m -> AttrValues] :
            c = SjoinCall(Table(TRUE, "EPSG:4326", lk, <<"x">>,
                                [i \in 1..n |-> {0}], la),
                          Table(TRUE, "EPSG:4326", "range", <<"x">>,
                                [i \in 1..m |-> {0}], ra),
                          "inner", "intersects", "left", "right", None,
                          <<"x">>)

\* The variables of the other tools while none of them is called.
ToolsIdle ==
    /\ tcall = NoCall
    /\ tpc = "none"
    /\ terror = NoError
    /\ tresult = None
    /\ db = <<>>

Init ==
    /\ ArgumentCall(call) \/ RowCall(call) \/ AttributeCall(call)
    /\ pc = "basic_checks"
    /\ error = NoError
    /\ warned = <<>>
    /\ sindex_built = FALSE
    /\ indices = <<>>
    /\ distances = None
    /\ ldf = NoFrame
    /\ rdf = NoFrame
    /\ joined = NoFrame
    /\ result = None
    /\ inputs = <<call.left_df, call.right_df>>
    /\ ocall = NoCall
    /\ opc = "none"
    /\ df1 = NoTable
    /\ df2 = NoTable
    /\ pending = <<>>
    /\ parts = <<>>
    /\ oresult = None
    /\ ToolsIdle

\* ----------------------------------------------------------------- the steps
\* The call raises e: nothing is returned.
Fail(e) == pc' = "done" /\ error' = e

\* sjoin.py 96 and 516: the call of _basic_checks.
BasicChecks ==
    /\ pc = "basic_checks"
    /\ \E e \in {_basic_checks(call.left_df, call.right_df, call.how,
                                call.lsuffix, call.rsuffix,
                                IF call.fn = "sjoin" THEN call.on_attribute
                                ELSE <<>>)} :
           IF e # NoError THEN Fail(e)
           ELSE /\ pc' = IF call.fn = "sjoin_nearest" THEN "max_distance"
                         ELSE "check_crs"
                /\ error' = error
    /\ UNCHANGED <<call, warned, sindex_built, indices, distances, ldf, rdf,
                   joined, result>>
    /\ UNCHANGED <<inputs, ovars, tvars>>

\* sjoin.py 518-519: max_distance must be positive.
MaxDistanceCheck ==
    /\ pc = "max_distance"
    /\ IF call.max_distance # None /\ call.max_distance[1] <= 0
       THEN Fail(Raise("ValueError", "max_distance"))
       ELSE pc' = "check_crs" /\ error' = error
    /\ UNCHANGED <<call, warned, sindex_built, indices, distances, ldf, rdf,
                   joined, result>>
    /\ UNCHANGED <<inputs, ovars, tvars>>

\* sjoin.py 99-100 and 522-523: the warning of a CRS mismatch.
CheckCrs ==
    /\ pc = "check_crs"
    /\ warned' = IF ~_check_crs(call.left_df.crs, call.right_df.crs)
                 THEN Append(warned, "crs_mismatch") ELSE warned
    /\ pc' = "query"
    /\ UNCHANGED <<call, error, sindex_built, indices, distances, ldf, rdf,
                   joined, result>>
    /\ UNCHANGED <<inputs, ovars, tvars>>

\* sjoin.py 103: the predicate query; the spatial index of the right table
\* is built unless the distance of a dwithin query is missing.
PredicateQuery ==
    /\ pc = "query"
    /\ call.fn = "sjoin"
    /\ \E q \in {_geom_predicate_query(call.left_df, call.right_df,
                                        call.predicate, call.distance,
                                        call.on_attribute)} :
           /\ sindex_built' = (q.error # Raise("ValueError", "distance"))
           /\ IF q.error # NoError
              THEN Fail(q.error) /\ indices' = indices
              ELSE pc' = "adjust" /\ error' = error /\ indices' = q.indices
    /\ UNCHANGED <<call, warned, distances, ldf, rdf, joined, result>>
    /\ UNCHANGED <<inputs, ovars, tvars>>

\* sjoin.py 526-536: the nearest query and the pairs of labels.
NearestQuery ==
    /\ pc = "query"
    /\ call.fn = "sjoin_nearest"
    /\ \E nearest \in {SindexNearest(call.left_df, call.right_df,
                                      call.max_distance, call.exclusive)} :
           /\ indices' = [k \in 1..Len(nearest) |->
                             [l |-> call.left_df.index[nearest[k].l],
                              r |-> call.right_df.index[nearest[k].r]]]
           /\ distances' = <<[k \in 1..Len(nearest) |-> <<nearest[k].d>>]>>
    /\ sindex_built' = TRUE
    /\ pc' = "adjust"
    /\ UNCHANGED <<call, error, warned, ldf, rdf, joined, result>>
    /\ UNCHANGED <<inputs, ovars, tvars>>

\* The predicate _frame_join is called with.
FramePredicate == IF call.fn = "sjoin" THEN call.predicate ELSE "nearest"

\* sjoin.py 342-346: the copies and _adjust_indexers.
AdjustIndexers ==
    /\ pc = "adjust"
    /\ ldf' = Frame(call.left_df, "left")
    /\ rdf' = Frame(call.right_df, "right")
    /\ \E a \in {_adjust_indexers(indices, distances, NRows(call.left_df),
                                   call.how, FramePredicate)} :
           IF a.error # NoError
           THEN Fail(a.error) /\ UNCHANGED <<indices, distances>>
           ELSE /\ pc' = "reset_index"
                /\ error' = error
                /\ indices' = a.indices
                /\ distances' = a.distances
    /\ UNCHANGED <<call, warned, sindex_built, joined, result>>
    /\ UNCHANGED <<inputs, ovars, tvars>>

\* sjoin.py 349-357: the two index resets and the renaming of the
\* overlapping columns.
ReconcileColumns ==
    /\ pc = "reset_index"
    /\ \E l \in {_reset_index_with_suffix(ldf, call.lsuffix, rdf)} :
       \E r \in {_reset_index_with_suffix(rdf, call.rsuffix, l.df)} :
       \E to_rename \in {_process_column_names_with_suffix(
                             l.df.columns, r.df.columns,
                             <<call.lsuffix, call.rsuffix>>)} :
           IF l.error # NoError THEN Fail(l.error) /\ UNCHANGED <<ldf, rdf>>
           ELSE IF r.error # NoError
               THEN Fail(r.error) /\ ldf' = l.df /\ rdf' = rdf
           ELSE /\ pc' = "merge"
                /\ error' = error
                /\ ldf' = Rename(l.df, to_rename.left)
                /\ rdf' = Rename(r.df, to_rename.right)
    /\ UNCHANGED <<call, warned, sindex_built, indices, distances, joined,
                   result>>
    /\ UNCHANGED <<inputs, ovars, tvars>>

\* sjoin.py 360-365: the join.
Join ==
    /\ pc = "merge"
    /\ \E j \in {PerformJoin(ldf, rdf, indices, call.how,
                              call.lsuffix, call.rsuffix)} :
           IF j.error # NoError THEN Fail(j.error) /\ joined' = joined
           ELSE pc' = "restore" /\ error' = error /\ joined' = j.df
    /\ UNCHANGED <<call, warned, sindex_built, indices, distances, ldf, rdf,
                   result>>
    /\ UNCHANGED <<inputs, ovars, tvars>>

\* sjoin.py 368-378, 108 and 542-545: the rest of _frame_join and the return.
Finish ==
    /\ pc = "restore"
    /\ \E f \in {FinishJoin(joined, distances, FramePredicate, ldf.names,
                             IF call.fn = "sjoin_nearest" THEN call.distance_col
                             ELSE None,
                             IF call.fn = "sjoin_nearest" THEN distances[1]
                             ELSE <<>>,
                             call.left_df, call.right_df)} :
           IF f.error # NoError THEN Fail(f.error) /\ UNCHANGED <<joined, result>>
           ELSE /\ pc' = "done"
                /\ error' = error
                /\ joined' = f.df
                /\ result' = <<f.df>>
    /\ UNCHANGED <<call, warned, sindex_built, indices, distances, ldf, rdf>>
    /\ UNCHANGED <<inputs, ovars, tvars>>

Next ==
    \/ BasicChecks
    \/ MaxDistanceCheck
    \/ CheckCrs
    \/ PredicateQuery
    \/ NearestQuery
    \/ AdjustIndexers
    \/ ReconcileColumns
    \/ Join
    \/ Finish

Spec == Init /\ [][Next]_vars

\* ------------------------------------------------------------------ overlay
\* A table given to overlay: a table of the join with the name of its active
\* geometry column, the type of its geometries and the positions of its
\* invalid geometries.  A geometry is the set of unit cells it covers.
OverlayTable(crs, cols, gname, geom_type, geoms, invalid) ==
    [geometry_name |-> gname, geom_type |-> geom_type, invalid |-> invalid]
        @@ [Table(TRUE, crs, "range", cols, geoms, Ones(Len(geoms)))
               EXCEPT !.columns = cols \o <<gname>>]

\* The argument record of a call of overlay.
OverlayCall(t1, t2, how, keep_geom_type, make_valid) ==
    [fn |-> "overlay", df1 |-> t1, df2 |-> t2, how |-> how,
     keep_geom_type |-> keep_geom_type, make_valid |-> make_valid]

\* _ensure_geometry_column: the table with its geometry column called
\* 'geometry', another column of that name dropped.
_ensure_geometry_column(df) ==
    LET gdf == IF ~df.gdf THEN [df EXCEPT !.gdf = TRUE] ELSE df
        kept == SelectSeq(gdf.columns, LAMBDA c : c # "geometry")
    IN  IF gdf.geometry_name # "geometry"
        THEN [gdf EXCEPT
                 !.columns = [i \in 1..Len(kept) |->
                                 IF kept[i] = gdf.geometry_name
                                 THEN "geometry" ELSE kept[i]],
                 !.geometry_name = "geometry"]
        ELSE gdf

\* Whether _ensure_geometry_column returns the object it was given and not
\* a new table.
SameObject(df) == df.gdf /\ df.geometry_name = "geometry"

\* df.geometry.make_valid(): every geometry valid.
MakeValid(df) == [df EXCEPT !.invalid = {}]

\* The type of the intersection of geometries of two types, and the
\* geometric operations on the cells.
IntersectionType(t, u) == IF "Point" \in {t, u} THEN "Point" ELSE "Polygon"
Intersection(a, b) == a \cap b
Difference(a, b) == a \ b
Union(a, b) == a \cup b

\* A table of overlay made from a table the join returned: every row with
\* the value of each of its columns.  one and two are the tables the join
\* was called with.
Cells(df, one, two) ==
    LET col(name) == CHOOSE c \in 1..Len(df.columns) : df.columns[c] = name
        dist(k) == IF "d" \in DOMAIN df.rows[k] THEN df.rows[k].d ELSE NaN
    IN  [columns |-> df.columns,
         rows |-> [k \in 1..Len(df.rows) |->
                     [cells |-> [name \in Range(df.columns) |->
                                    CellValue(df.src[col(name)], df.rows[k],
                                              dist(k), one, two)],
                      index |-> df.index[k],
                      type |-> one.geom_type]]]

\* joined['geometry'] = values: the column set in every row.
SetGeometry(df, values, types) ==
    [columns |-> IF "geometry" \in Range(df.columns) THEN df.columns
                 ELSE Append(df.columns, "geometry"),
     rows |-> [k \in 1..Len(df.rows) |->
                 [cells |-> [name \in Range(df.columns) \cup {"geometry"} |->
                                IF name = "geometry" THEN values[k]
                                ELSE df.rows[k].cells[name]],
                  index |-> df.rows[k].index,
                  type |-> types[k]]]]

\* df.drop(columns=names).reset_index(drop=True)
DropColumns(df, names) ==
    LET rest == SelectSeq(df.columns, LAMBDA c : c \notin names)
    IN  [columns |-> rest,
         rows |-> [k \in 1..Len(df.rows) |->
                     [cells |-> [name \in Range(rest) |->
                                    df.rows[k].cells[name]],
                      index |-> <<k - 1>>,
                      type |-> df.rows[k].type]]]

NoRows == [columns |-> <<>>, rows |-> <<>>]

\* The columns a primitive reads or drops and the joined table has not.
MissingColumns(df, names) == names \ Range(df.columns)

\* _overlay_intersection after its call of sjoin, which raised err or
\* returned res: the intersections of the pairs, or the error raised.
_overlay_intersection(err, res, one, two) ==
    LET j == Cells(res[1], one, two)
        values == [k \in 1..Len(j.rows) |->
                     <<Intersection(j.rows[k].cells["geometry_x"][1],
                                    j.rows[k].cells["geometry_y"][1])>>]
        types == [k \in 1..Len(j.rows) |->
                    IntersectionType(one.geom_type, two.geom_type)]
    IN  IF err # NoError THEN [error |-> err, df |-> NoRows]
        ELSE IF MissingColumns(j, {"geometry_x", "geometry_y"}) # {}
            THEN [error |-> Raise("KeyError", "geometry_x"), df |-> NoRows]
        ELSE IF MissingColumns(j, {"index_right"}) # {}
            THEN [error |-> Raise("KeyError", "drop"), df |-> NoRows]
        ELSE [error |-> NoError,
              df |-> DropColumns(SetGeometry(j, values, types),
                                 {"geometry_x", "geometry_y", "index_right"})]

\* _overlay_difference after its call of sjoin.
_overlay_difference(err, res, one, two) ==
    LET j == Cells(res[1], one, two)
        difference_op(row) ==
            IF row["index_right"] = NaN THEN row["geometry"]
            ELSE <<Difference(row["geometry"][1], row["geometry_right"][1])>>
        values == [k \in 1..Len(j.rows) |-> difference_op(j.rows[k].cells)]
        types == [k \in 1..Len(j.rows) |-> one.geom_type]
    IN  IF err # NoError THEN [error |-> err, df |-> NoRows]
        ELSE IF MissingColumns(j, {"index_right", "geometry"}) # {}
            THEN [error |-> Raise("KeyError", "index_right"), df |-> NoRows]
        ELSE IF MissingColumns(j, {"geometry_right"}) # {}
            THEN [error |-> Raise("KeyError", "geometry_right"), df |-> NoRows]
        ELSE [error |-> NoError,
              df |-> DropColumns(SetGeometry(j, values, types),
                                 {"geometry_right", "index_right"})]

\* _overlay_union after its call of sjoin.
_overlay_union(err, res, one, two) ==
    LET j == Cells(res[1], one, two)
        union_op(row) ==
            IF row["geometry_y"] = NaN THEN row["geometry_x"]
            ELSE IF row["geometry_x"] = NaN THEN row["geometry_y"]
            ELSE <<Union(row["geometry_x"][1], row["geometry_y"][1])>>
        values == [k \in 1..Len(j.rows) |-> union_op(j.rows[k].cells)]
        types == [k \in 1..Len(j.rows) |-> one.geom_type]
    IN  IF err # NoError THEN [error |-> err, df |-> NoRows]
        ELSE IF MissingColumns(j, {"geometry_x", "geometry_y"}) # {}
            THEN [error |-> Raise("KeyError", "geometry_x"), df |-> NoRows]
        ELSE IF MissingColumns(j, {"index_right"}) # {}
            THEN [error |-> Raise("KeyError", "drop"), df |-> NoRows]
        ELSE [error |-> NoError,
              df |-> DropColumns(SetGeometry(j, values, types),
                                 {"geometry_x", "geometry_y", "index_right"})]

\* The primitives of overlay: what each is, the how it calls sjoin with,
\* and whether it is called with the two tables swapped.
Primitive(op, swap) == [op |-> op, swap |-> swap]
SjoinHow(op) ==
    CASE op = "intersection" -> "inner"
      [] op = "difference" -> "left"
      [] op = "union" -> "outer"

\* overlay.py 210-221: the primitives that make up each how, in the order
\* they are run; none for a how that is not one of the five.
Primitives(how) ==
    CASE how = "intersection" -> <<Primitive("intersection", FALSE)>>
      [] how = "union" -> <<Primitive("union", FALSE)>>
      [] how = "identity" -> <<Primitive("intersection", FALSE),
                               Primitive("difference", FALSE)>>
      [] how = "symmetric_difference" -> <<Primitive("difference", FALSE),
                                           Primitive("difference", TRUE)>>
      [] how = "difference" -> <<Primitive("difference", FALSE)>>
      [] OTHER -> <<>>

\* A primitive that returns an empty table whatever its call of sjoin did.
RunPrimitive_no_raise(p, err, res, one, two) ==
    [error |-> NoError, df |-> NoRows]

\* What the primitive p makes of the outcome of its call of sjoin.
RunPrimitive(p, err, res, one, two) ==
    CASE p.op = "intersection" -> _overlay_intersection(err, res, one, two)
      [] p.op = "difference" -> _overlay_difference(err, res, one, two)
      [] p.op = "union" -> _overlay_union(err, res, one, two)

\* pd.concat(tables, ignore_index=True): the rows of the tables one after
\* the other, a column a table has not being missing in its rows.
RECURSIVE Concat(_)
Concat(tables) ==
    IF Len(tables) = 1 THEN tables[1]
    ELSE LET a == tables[1]
             b == Concat(Tail(tables))
             new == SelectSeq(b.columns, LAMBDA c : c \notin Range(a.columns))
             columns == a.columns \o new
             widen(row) ==
                 [row EXCEPT !.cells =
                     [name \in Range(columns) |->
                         IF name \in DOMAIN row.cells THEN row.cells[name]
                         ELSE NaN]]
             rows == [k \in 1..Len(a.rows) |-> widen(a.rows[k])]
                         \o [k \in 1..Len(b.rows) |-> widen(b.rows[k])]
         IN  [columns |-> columns,
              rows |-> [k \in 1..Len(rows) |->
                          [rows[k] EXCEPT !.index = <<k - 1>>]]]

\* overlay.py 223-246: the rows of the type of the first geometry of df1
\* when keep_geom_type is not False, the warning when it is None and a row
\* is dropped, the new index and the CRS of df1.
PostProcess(res, keep_geom_type, one) ==
    LET keep == keep_geom_type = None \/ keep_geom_type = <<TRUE>>
        mask == [k \in 1..Len(res.rows) |-> res.rows[k].type = one.geom_type]
        kept == Where(mask)
        filtered == IF keep THEN [k \in 1..Len(kept) |-> res.rows[kept[k]]]
                    ELSE res.rows
    IN  IF keep /\ NRows(one) = 0
        THEN [error |-> Raise("IndexError", "iloc"), df |-> NoRows,
              warn |-> FALSE]
        ELSE [error |-> NoError,
              df |-> [columns |-> res.columns, crs |-> one.crs,
                      rows |-> [k \in 1..Len(filtered) |->
                                  [filtered[k] EXCEPT !.index = <<k - 1>>]]],
              warn |-> keep_geom_type = None /\ Len(kept) # Len(res.rows)]

\* The geometries of the tables given to overlay, as sets of unit cells:
\* the first two overlap in one cell, the third is apart from both.
OverlayGeoms == {{0, 1}, {1, 2}, {3}}
OverlayHows ==
    {"intersection", "union", "identity", "symmetric_difference",
     "difference", "outer"}

\* Calls of overlay on tables of one row each, the boxes {0, 1} and {1, 2},
\* that vary the arguments, the name of the geometry column, the validity
\* and the type of the geometries and the CRS.
OverlayArgumentCall(c) ==
    \E how \in OverlayHows, keep_geom_type \in {None, <<TRUE>>, <<FALSE>>},
       make_valid \in BOOLEAN, n1 \in {"geometry", "geom"},
       n2 \in {"geometry", "geom"}, i1 \in {{}, {1}}, i2 \in {{}, {1}},
       type \in {"Polygon", "Point"}, crs \in {"EPSG:4326", "EPSG:3857"} :
        c = OverlayCall(
                OverlayTable("EPSG:4326", <<"df1_data">>, n1, "Polygon",
                             <<{0, 1}>>, i1),
                OverlayTable(crs, <<"df2_data">>, n2, type, <<{1, 2}>>, i2),
                how, keep_geom_type, make_valid)

\* Calls of overlay that vary the rows of the two tables.
OverlayRowCall(c) ==
    \E n \in 1..MaxRows, m \in 1..MaxRows, how \in OverlayHows \ {"outer"} :
        \E g1 \in [1..n -> OverlayGeoms], g2 \in [1..m -> OverlayGeoms] :
            c = OverlayCall(
                    OverlayTable("EPSG:4326", <<"df1_data">>, "geometry",
                                 "Polygon", g1, {}),
                    OverlayTable("EPSG:4326", <<"df2_data">>, "geometry",
                                 "Polygon", g2, {}),
                    how, None, TRUE)

\* The variables of the join before sjoin is called.
JoinIdle ==
    /\ pc = "idle"
    /\ error = NoError
    /\ warned = <<>>
    /\ sindex_built = FALSE
    /\ indices = <<>>
    /\ distances = None
    /\ ldf = NoFrame
    /\ rdf = NoFrame
    /\ joined = NoFrame
    /\ result = None

OverlayInit ==
    /\ OverlayArgumentCall(ocall) \/ OverlayRowCall(ocall)
    /\ call = NoCall
    /\ JoinIdle
    /\ inputs = <<ocall.df1, ocall.df2>>
    /\ opc = "ensure"
    /\ df1 = NoTable
    /\ df2 = NoTable
    /\ pending = <<>>
    /\ parts = <<>>
    /\ oresult = None
    /\ ToolsIdle

\* overlay.py 197-198: the two tables with a geometry column 'geometry'.
EnsureGeometryColumns ==
    /\ opc = "ensure"
    /\ df1' = _ensure_geometry_column(ocall.df1)
    /\ df2' = _ensure_geometry_column(ocall.df2)
    /\ opc' = "check_crs"
    /\ UNCHANGED <<jvars, inputs, ocall, pending, parts, oresult, tvars>>

\* overlay.py 201-202: the warning of a CRS mismatch.
OverlayCheckCrs ==
    /\ opc = "check_crs"
    /\ warned' = IF ~_check_crs(df1.crs, df2.crs)
                 THEN Append(warned, "crs_mismatch") ELSE warned
    /\ opc' = "make_valid"
    /\ UNCHANGED <<call, pc, error, sindex_built, indices, distances, ldf,
                   rdf, joined, result, inputs, ocall, df1, df2, pending,
                   parts, oresult, tvars>>

\* overlay.py 205-207: with make_valid the geometry column of df1 and of
\* df2 is set to the repaired geometries, in the object the local names:
\* the caller's table when _ensure_geometry_column returned it as it was.
RepairGeometries ==
    /\ opc = "make_valid"
    /\ IF ocall.make_valid
       THEN /\ df1' = MakeValid(df1)
            /\ df2' = MakeValid(df2)
            /\ inputs' = <<IF SameObject(ocall.df1) THEN MakeValid(df1)
                           ELSE inputs[1],
                           IF SameObject(ocall.df2) THEN MakeValid(df2)
                           ELSE inputs[2]>>
       ELSE UNCHANGED <<df1, df2, inputs>>
    /\ opc' = "dispatch"
    /\ UNCHANGED <<jvars, ocall, pending, parts, oresult, tvars>>

\* The call df1.sjoin(df2, how=..., predicate='intersects') of the
\* primitive p: sjoin starts on the two tables, swapped for a swapped
\* primitive.
CallSjoin(p) ==
    /\ call' = SjoinCall(IF p.swap THEN df2 ELSE df1,
                         IF p.swap THEN df1 ELSE df2,
                         SjoinHow(p.op), "intersects", "left", "right",
                         None, <<>>)
    /\ pc' = "basic_checks"
    /\ error' = NoError
    /\ sindex_built' = FALSE
    /\ indices' = <<>>
    /\ distances' = None
    /\ ldf' = NoFrame
    /\ rdf' = NoFrame
    /\ joined' = NoFrame
    /\ result' = None
    /\ opc' = "sjoin"

\* overlay.py 210-221: the branch on how; the first primitive of the how
\* calls sjoin, and any other how raises.
Dispatch ==
    /\ opc = "dispatch"
    /\ IF Primitives(ocall.how) = <<>>
       THEN /\ opc' = "done"
            /\ error' = Raise("ValueError", "how")
            /\ UNCHANGED <<call, pc, sindex_built, indices, distances, ldf,
                           rdf, joined, result, pending>>
       ELSE /\ pending' = Primitives(ocall.how)
            /\ CallSjoin(Primitives(ocall.how)[1])
    /\ UNCHANGED <<warned, inputs, ocall, df1, df2, parts, oresult, tvars>>

\* The rest of a primitive once its sjoin has ended, the next primitive of
\* the how, and after the last one overlay.py 223-246.
AfterJoin ==
    /\ opc = "sjoin"
    /\ pc = "done"
    /\ \E o \in {RunPrimitive(pending[1], error, result, call.left_df,
                               call.right_df)} :
           IF o.error # NoError
           THEN /\ opc' = "done"
                /\ error' = o.error
                /\ UNCHANGED <<call, pc, warned, sindex_built, indices,
                               distances, ldf, rdf, joined, result, pending,
                               parts, oresult>>
           ELSE IF Len(pending) > 1
           THEN /\ parts' = Append(parts, o.df)
                /\ pending' = Tail(pending)
                /\ CallSjoin(pending[2])
                /\ UNCHANGED <<warned, oresult>>
           ELSE \E post \in {PostProcess(Concat(Append(parts, o.df)),
                                          ocall.keep_geom_type, df1)} :
                /\ opc' = "done"
                /\ error' = post.error
                /\ oresult' = IF post.error = NoError THEN <<post.df>>
                              ELSE oresult
                /\ warned' = IF post.warn
                             THEN Append(warned, "keep_geom_type")
                             ELSE warned
                /\ parts' = Append(parts, o.df)
                /\ pending' = Tail(pending)
                /\ UNCHANGED <<call, pc, sindex_built, indices, distances,
                               ldf, rdf, joined, result>>
    /\ UNCHANGED <<inputs, ocall, df1, df2, tvars>>

OverlayNext ==
    \/ EnsureGeometryColumns
    \/ OverlayCheckCrs
    \/ RepairGeometries
    \/ Dispatch
    \/ BasicChecks
    \/ CheckCrs
    \/ PredicateQuery
    \/ AdjustIndexers
    \/ ReconcileColumns
    \/ Join
    \/ Finish
    \/ AfterJoin

OverlaySpec == OverlayInit /\ [][OverlayNext]_vars

\* ------------------------------------------------------------------ collect
\* The largest number of geometries of a series given to collect.
MaxGeoms == 2

\* A single-part geometry of a type, told apart by its id, and a Multi* or
\* collection geometry with its parts.
Geom(type, id) == [geom_type |-> type, id |-> id, geoms |-> <<>>]
Multi(type, geoms) == [geom_type |-> type, id |-> 0, geoms |-> geoms]

\* util.py 4: the Multi* class of each single-part type.
_multi_type_map ==
    [t \in {"Point", "LineString", "Polygon"} |-> "Multi" \o t]

\* The geometries that are not None, as one Multi* geometry only when
\* multi is set, else the first one.
CollectParts_only_multi(items, multi_type, multi) ==
    LET geoms == SelectSeq(items, LAMBDA g : g # None)
    IN  IF multi THEN Multi(multi_type, geoms)
        ELSE geoms[1]

\* util.py 39-43: the geometries that are not None, as one Multi* geometry
\* when multi is set or there are several, else the only one.
CollectParts(items, multi_type, multi) ==
    LET geoms == SelectSeq(items, LAMBDA g : g # None)
    IN  IF multi \/ Len(geoms) > 1 THEN Multi(multi_type, geoms)
        ELSE geoms[1]

\* What a call returns: a value, or an error raised.
Return(v) == [error |-> NoError, value |-> <<v>>]
Raised(type, at) == [error |-> Raise(type, at), value |-> None]

\* util.py 23-26: collect of a single geometry.
collect_geometry(g, multi) ==
    IF multi /\ g.geom_type \notin Range(_multi_type_map)
    THEN IF g.geom_type \in DOMAIN _multi_type_map
         THEN Return(Multi(_multi_type_map[g.geom_type], <<g>>))
         ELSE Raised("KeyError", "_multi_type_map")
    ELSE Return(g)

\* util.py 28-47: collect of a series or a list of geometries, some of
\* which may be None.  The names MultiGeometryCollection and
\* GeometryCollection are not defined in the module.
collect_series(items, multi) ==
    LET types == {items[i].geom_type :
                     i \in {j \in 1..Len(items) : items[j] # None}}
        geom_type == CHOOSE t \in types : TRUE
    IN  IF Cardinality(types) > 1
        THEN Raised("NameError", "MultiGeometryCollection")
        ELSE IF types = {} THEN Raised("IndexError", "list(types)[0]")
        ELSE IF geom_type \in DOMAIN _multi_type_map
        THEN Return(CollectParts(items, _multi_type_map[geom_type], multi))
        ELSE IF geom_type \in {"MultiPoint", "MultiLineString", "MultiPolygon"}
        THEN IF \E i \in 1..Len(items) : items[i] = None
             THEN Raised("AttributeError", "geoms")
             ELSE Return(Multi(geom_type,
                               Flatten([i \in 1..Len(items) |->
                                           items[i].geoms])))
        ELSE Raised("NameError", "GeometryCollection")

\* The geometries given to collect, and None.
CollectGeoms ==
    {Geom("Point", 1), Geom("Point", 2), Geom("LineString", 1),
     Geom("Polygon", 1), Multi("MultiPoint", <<Geom("Point", 1)>>),
     Multi("GeometryCollection", <<>>)}
CollectItems == CollectGeoms \cup {None}

\* The calls of collect: on one geometry, and on a series of up to
\* MaxGeoms geometries.
CollectCall(c) ==
    \E multi \in BOOLEAN :
        \/ \E g \in CollectGeoms :
               c = [fn |-> "collect", kind |-> "geometry", x |-> <<g>>,
                    multi |-> multi]
        \/ \E n \in 0..MaxGeoms : \E items \in [1..n -> CollectItems] :
               c = [fn |-> "collect", kind |-> "series", x |-> items,
                    multi |-> multi]

\* The variables of overlay while it is not called.
OverlayIdle ==
    /\ ocall = NoCall
    /\ opc = "none"
    /\ df1 = NoTable
    /\ df2 = NoTable
    /\ pending = <<>>
    /\ parts = <<>>
    /\ oresult = None

CollectInit ==
    /\ CollectCall(tcall)
    /\ tpc = "collect"
    /\ terror = NoError
    /\ tresult = None
    /\ db = <<>>
    /\ call = NoCall
    /\ JoinIdle
    /\ inputs = <<>>
    /\ OverlayIdle

\* The call ends with the outcome o.
ToolEnds(o) ==
    /\ tpc' = "done"
    /\ terror' = o.error
    /\ tresult' = o.value
    /\ UNCHANGED <<tcall, db, jvars, inputs, ovars>>

\* util.py 23-26
CollectGeometry ==
    /\ tpc = "collect"
    /\ tcall.kind = "geometry"
    /\ ToolEnds(collect_geometry(tcall.x[1], tcall.multi))

\* util.py 28-47
CollectSeries ==
    /\ tpc = "collect"
    /\ tcall.kind = "series"
    /\ ToolEnds(collect_series(tcall.x, tcall.multi))

CollectNext == CollectGeometry \/ CollectSeries

CollectSpec == CollectInit /\ [][CollectNext]_vars

\* ----------------------------------------------------------- _write_postgis
\* The largest number of rows a table of the database holds.
MaxTableRows == 3

\* The names of the tables of the database, and a table that does not
\* exist.
TableNames == {"nybb"}
Absent == [exists |-> FALSE, columns |-> <<>>, rows |-> <<>>]

\* sql.py 183-192: the SRID of the frame, 0 without a CRS.
_get_srid_from_crs(gdf) == IF gdf.crs = None THEN 0 ELSE gdf.crs[1]

\* sql.py 194-203: every geometry <<g>> as EWKB, the pair of the SRID and
\* the geometry, None staying None.
_convert_to_ewkb(gdf, srid) ==
    [i \in 1..Len(gdf.geometry) |->
        IF gdf.geometry[i] = None THEN None
        ELSE <<srid, gdf.geometry[i][1]>>]

\* The frames written: their columns, the geometries of their rows and
\* their CRS as an EPSG code.
PostgisFrames ==
    {[columns |-> cols, geometry |-> g, crs |-> crs] :
        cols \in {<<"geometry">>, <<"BoroName", "geometry">>},
        g \in UNION {[1..n -> {<<1>>, <<2>>, None}] : n \in 0..MaxRows},
        crs \in {<<4326>>}}

\* sql.py 205: a call of _write_postgis; existed and before are the state
\* of the table when the call is made.
WriteCall(gdf, name, if_exists, table) ==
    [fn |-> "_write_postgis", gdf |-> gdf, name |-> name,
     if_exists |-> if_exists, existed |-> table.exists,
     before |-> table.rows]

\* DataFrame.to_sql(name, con, if_exists=...) on a table that exists or
\* not: 'fail' raises when it exists, 'replace' drops it and makes it anew
\* from the frame, 'append' inserts into it, which the database refuses
\* when the table has not the columns of the frame.
to_sql(columns, rows, table, if_exists) ==
    IF ~table.exists \/ if_exists = "replace"
    THEN [error |-> NoError,
          table |-> [exists |-> TRUE, columns |-> columns, rows |-> rows]]
    ELSE IF if_exists = "fail"
    THEN [error |-> Raise("ValueError", "table exists"), table |-> table]
    ELSE IF Range(columns) \subseteq Range(table.columns)
    THEN [error |-> NoError,
          table |-> [table EXCEPT !.rows = table.rows \o rows]]
    ELSE [error |-> Raise("ProgrammingError", "column"), table |-> table]

PostgisInit ==
    /\ db = [name \in TableNames |-> Absent]
    /\ tcall = NoCall
    /\ tpc = "idle"
    /\ terror = NoError
    /\ tresult = None
    /\ call = NoCall
    /\ JoinIdle
    /\ inputs = <<>>
    /\ OverlayIdle

\* sql.py 205-275: the call is entered; nothing is written yet.
WritePostgis ==
    /\ tpc \in {"idle", "done"}
    /\ \E gdf \in PostgisFrames, name \in TableNames,
          if_exists \in {"fail", "replace", "append"} :
           /\ Len(db[name].rows) + Len(gdf.geometry) <= MaxTableRows
           /\ tcall' = WriteCall(gdf, name, if_exists, db[name])
    /\ tpc' = "has_table"
    /\ terror' = NoError
    /\ tresult' = None
    /\ UNCHANGED <<db, jvars, inputs, ovars>>

\* sql.py 278-279: a table that does not exist is created, with the
\* geometry column alone.
CreateTable ==
    /\ tpc = "has_table"
    /\ db' = IF ~db[tcall.name].exists
             THEN [db EXCEPT ![tcall.name] =
                      [exists |-> TRUE, columns |-> <<"geometry">>,
                       rows |-> <<>>]]
             ELSE db
    /\ tpc' = "to_sql"
    /\ UNCHANGED <<tcall, terror, tresult, jvars, inputs, ovars>>

\* sql.py 282-283: the copy of the frame with its geometries as EWKB is
\* written with to_sql.
ToSql ==
    /\ tpc = "to_sql"
    /\ \E o \in {to_sql(tcall.gdf.columns,
                         _convert_to_ewkb(tcall.gdf,
                                          _get_srid_from_crs(tcall.gdf)),
                         db[tcall.name], tcall.if_exists)} :
           /\ db' = [db EXCEPT ![tcall.name] = o.table]
           /\ terror' = o.error
    /\ tpc' = "done"
    /\ UNCHANGED <<tcall, tresult, jvars, inputs, ovars>>

PostgisNext == WritePostgis \/ CreateTable \/ ToSql

PostgisSpec == PostgisInit /\ [][PostgisNext]_vars

\* -------------------------------------------------------- _hilbert_distance
\* The largest level of the curve.
MaxLevel == 2

RECURSIVE Pow2(_)
Pow2(n) == IF n = 0 THEN 1 ELSE 2 * Pow2(n - 1)

\* The bitwise operations of numpy on non-negative integers.
RECURSIVE BitAnd(_, _)
BitAnd(a, b) ==
    IF a = 0 \/ b = 0 THEN 0
    ELSE (IF a % 2 = 1 /\ b % 2 = 1 THEN 1 ELSE 0)
           + 2 * BitAnd(a \div 2, b \div 2)

RECURSIVE BitOr(_, _)
BitOr(a, b) ==
    IF a = 0 THEN b
    ELSE IF b = 0 THEN a
    ELSE (IF a % 2 = 1 \/ b % 2 = 1 THEN 1 ELSE 0)
           + 2 * BitOr(a \div 2, b \div 2)

\* a << k.  The result of _hilbert_distance is held in 64 bits without a
\* sign; in the loop of at most 16 steps it stays below 2^48, so that no
\* bit is shifted out.
ShiftLeft(a, k) == a * Pow2(k)

\* The number of bits of a non-negative integer.
RECURSIVE BitLength(_)
BitLength(a) == IF a = 0 THEN 0 ELSE 1 + BitLength(a \div 2)

\* hilbert_curve.py 73-93: the value scaled to its range and cut to an
\* integer in 0..n-1.
_continuous_to_discrete(val, min_val, max_val, n) ==
    LET scaled == ((val - min_val) * (n - 1)) \div (max_val - min_val)
    IN  IF scaled < 0 THEN 0 ELSE IF scaled > n - 1 THEN n - 1 ELSE scaled

\* hilbert_curve.py 39-71: the discrete coordinates of the mid point of
\* each geometry.
_continuous_to_discrete_coords(bounds, level, total_bounds) ==
    LET n == Pow2(level)
    IN  [k \in 1..Len(bounds) |->
            <<_continuous_to_discrete((bounds[k][1] + bounds[k][3]) \div 2,
                                      total_bounds[1], total_bounds[3], n),
              _continuous_to_discrete((bounds[k][2] + bounds[k][4]) \div 2,
                                      total_bounds[2], total_bounds[4], n)>>]

\* hilbert_curve.py 32-35: the loop over the bits of x and y, from the
\* highest to the lowest, done i of the level steps.
RECURSIVE HilbertLoop(_, _, _, _)
HilbertLoop(x, y, level, i) ==
    IF i = 0 THEN 0
    ELSE LET bit == Pow2(level - i)
             h == HilbertLoop(x, y, level, i - 1)
         IN  BitOr(BitOr(ShiftLeft(h, 2), ShiftLeft(BitAnd(x, bit), 1)),
                   BitAnd(y, bit))

\* hilbert_curve.py 3-37.  h is an array of uint64 and x and y are arrays
\* of int64: numpy has no common integer type for the two, so the bitwise
\* or of line 35 raises TypeError; a build that computes it in integers
\* returns the value of the loop.
_hilbert_distance(bounds, total_bounds, level) ==
    LET coords == _continuous_to_discrete_coords(bounds, level, total_bounds)
    IN  {Raised("TypeError", "bitwise_or"),
         Return([k \in 1..Len(coords) |->
                    HilbertLoop(coords[k][1], coords[k][2], level, level)])}

\* The calls: two points with whole coordinates on the grid of the level,
\* which is the total bounds, so that each point is its own cell.
HilbertCall(c) ==
    \E level \in 1..MaxLevel :
        \E p \in [1..2 -> (0..Pow2(level) - 1) \X (0..Pow2(level) - 1)] :
            c = [fn |-> "_hilbert_distance",
                 bounds |-> [k \in 1..2 |->
                               <<p[k][1], p[k][2], p[k][1], p[k][2]>>],
                 total_bounds |-> <<0, 0, Pow2(level) - 1, Pow2(level) - 1>>,
                 level |-> level]

HilbertInit ==
    /\ HilbertCall(tcall)
    /\ tpc = "hilbert"
    /\ terror = NoError
    /\ tresult = None
    /\ db = <<>>
    /\ call = NoCall
    /\ JoinIdle
    /\ inputs = <<>>
    /\ OverlayIdle

\* hilbert_curve.py 25-37
HilbertDistance ==
    /\ tpc = "hilbert"
    /\ \E o \in _hilbert_distance(tcall.bounds, tcall.total_bounds,
                                    tcall.level) : ToolEnds(o)

HilbertNext == HilbertDistance

HilbertSpec == HilbertInit /\ [][HilbertNext]_vars

\* ---------------------------------------------------------- the properties
Done == pc = "done"
Returned == pc = "done" /\ error = NoError /\ result # None

\* The arguments pass every validation of the call.
ValidArguments ==
    /\ _basic_checks(call.left_df, call.right_df, call.how, call.lsuffix,
                     call.rsuffix,
                     IF call.fn = "sjoin" THEN call.on_attribute ELSE <<>>)
         = NoError
    /\ ~(call.fn = "sjoin" /\ call.predicate = "dwithin"
            /\ call.distance = None)
    /\ ~(call.fn = "sjoin_nearest" /\ call.max_distance # None
            /\ call.max_distance[1] <= 0)

\* The position pairs (1-based) the query of the call matches.
InnerPairs ==
    IF call.fn = "sjoin"
    THEN SindexQuery(call.left_df, call.right_df, call.predicate, call.distance)
    ELSE LET near == SindexNearest(call.left_df, call.right_df,
                                   call.max_distance, call.exclusive)
         IN  [k \in 1..Len(near) |-> [l |-> near[k].l, r |-> near[k].r]]

\* How often the frame rows hold the source rows l and r (None: no row).
Count(rows, l, r) ==
    Cardinality({k \in 1..Len(rows) : rows[k].l = l /\ rows[k].r = r})

\* The rows are exactly the matched pairs, once each.
ExactlyInnerRows(rows) ==
    /\ Len(rows) = Len(InnerPairs)
    /\ \A k \in 1..Len(InnerPairs) :
          Count(rows, <<InnerPairs[k].l>>, <<InnerPairs[k].r>>) = 1

\* C1: an inner sjoin returns exactly one row for each position pair on
\* which the predicate holds and no other row, each made of the left row l
\* and the right row r of the pair, whatever the row labels of the tables.
C1_InnerJoinExact ==
    (call.fn = "sjoin" /\ call.how = "inner" /\ call.on_attribute = <<>>
        /\ ValidArguments) =>
        /\ pc = "restore" => ExactlyInnerRows(joined.rows)
        /\ Done => Returned /\ ExactlyInnerRows(result[1].rows)

\* Every matched pair is in the pair list, and every position 1..n of the
\* outer side without a match is in it exactly once, with the sentinel.
OuterPairList(idx, n, side) ==
    LET key(k) == IF side = "left" THEN idx[k].l ELSE idx[k].r
        other(k) == IF side = "left" THEN idx[k].r ELSE idx[k].l
        matched(i) ==
            \E k \in 1..Len(InnerPairs) :
                (IF side = "left" THEN InnerPairs[k].l ELSE InnerPairs[k].r) = i
    IN  /\ \A k \in 1..Len(InnerPairs) :
              [l |-> <<InnerPairs[k].l - 1>>, r |-> <<InnerPairs[k].r - 1>>]
                  \in Range(idx)
        /\ \A i \in 1..n :
              /\ \E k \in 1..Len(idx) : key(k) = <<i - 1>>
              /\ ~matched(i) =>
                    /\ Cardinality({k \in 1..Len(idx) : key(k) = <<i - 1>>}) = 1
                    /\ \A k \in 1..Len(idx) :
                          key(k) = <<i - 1>> => other(k) = Sentinel

\* The same of the rows of a frame: an unmatched row of the outer side is
\* there once, with no row of the other side.
OuterRows(rows, n, side) ==
    LET key(k) == IF side = "left" THEN rows[k].l ELSE rows[k].r
        other(k) == IF side = "left" THEN rows[k].r ELSE rows[k].l
        matched(i) ==
            \E k \in 1..Len(InnerPairs) :
                (IF side = "left" THEN InnerPairs[k].l ELSE InnerPairs[k].r) = i
    IN  /\ \A k \in 1..Len(InnerPairs) :
              Count(rows, <<InnerPairs[k].l>>, <<InnerPairs[k].r>>) >= 1
        /\ \A i \in 1..n :
              /\ \E k \in 1..Len(rows) : key(k) = <<i>>
              /\ ~matched(i) =>
                    /\ Cardinality({k \in 1..Len(rows) : key(k) = <<i>>}) = 1
                    /\ \A k \in 1..Len(rows) :
                          key(k) = <<i>> => other(k) = None

\* C2: for how='left' the pair list of _adjust_indexers and the result hold
\* every inner pair, and every left position 0..N-1 without a match exactly
\* once, with the sentinel (null right attributes); so every left row is in
\* the result at least once.
C2_LeftJoinKeepsEveryLeftRow ==
    (call.how = "left" /\ call.on_attribute = <<>> /\ ValidArguments) =>
        /\ pc = "reset_index" =>
              OuterPairList(indices, NRows(call.left_df), "left")
        /\ Done => /\ Returned
                   /\ OuterRows(result[1].rows, NRows(call.left_df), "left")

\* C3: for how='right' the pair list of _adjust_indexers and the result hold
\* every inner pair, and every right position 0..M-1 at least once, an
\* unmatched one with the sentinel left position, also when the two tables
\* have different numbers of rows.
C3_RightJoinKeepsEveryRightRow ==
    (call.how = "right" /\ call.on_attribute = <<>> /\ ValidArguments) =>
        /\ pc = "reset_index" =>
              OuterPairList(indices, NRows(call.right_df), "right")
        /\ Done => /\ Returned
                   /\ OuterRows(result[1].rows, NRows(call.right_df), "right")

\* One of the argument errors of C4 holds of the call.
BadArguments ==
    \/ call.how \notin {"left", "right", "inner"}
    \/ call.fn = "sjoin" /\ call.predicate = "dwithin" /\ call.distance = None
    \/ call.fn = "sjoin_nearest" /\ call.max_distance # None
          /\ call.max_distance[1] <= 0
    \/ /\ call.fn = "sjoin"
       /\ \E k \in 1..Len(call.on_attribute) :
             \/ call.on_attribute[k] \notin Range(call.left_df.columns)
             \/ call.on_attribute[k] \notin Range(call.right_df.columns)
    \/ ~call.left_df.gdf
    \/ ~call.right_df.gdf

\* C4: sjoin and sjoin_nearest raise an input error (ValueError) and return
\* no table whenever how is invalid, the predicate is 'dwithin' without a
\* distance, max_distance is not positive, a name of on_attribute is no
\* column of one of the tables, or an argument is no GeoDataFrame: such a
\* call never gets to the join.
C4_BadArgumentsRaise ==
    BadArguments =>
        /\ result = None
        /\ pc \in {"basic_checks", "max_distance", "check_crs", "query", "done"}
        /\ Done => error.type = "ValueError"

\* A call of sjoin with valid tables and the predicate 'dwithin' without a
\* distance has raised its input error in the query.
C4_Witness ==
    /\ Done
    /\ call.fn = "sjoin" /\ call.predicate = "dwithin" /\ call.distance = None
    /\ call.how = "inner" /\ call.on_attribute = <<>>
    /\ error = Raise("ValueError", "distance")
    /\ result = None

\* The column names the call reserves for the row labels of its two tables.
ReservedNames == {"index_" \o call.lsuffix, "index_" \o call.rsuffix}

\* C5: the call raises an input error when 'index_' + lsuffix or
\* 'index_' + rsuffix is already a column of the left or of the right table:
\* such a call never gets past _basic_checks.
C5_ReservedColumnRaises ==
    (/\ call.left_df.gdf /\ call.right_df.gdf
     /\ ReservedNames \cap (Range(call.left_df.columns)
                             \cup Range(call.right_df.columns)) # {}) =>
        \/ pc = "basic_checks"
        \/ Done /\ error.type = "ValueError" /\ result = None

\* C6: with inputs of different CRS the call warns, does not raise because
\* of the mismatch and returns its table.
C6_CrsMismatchOnlyWarns ==
    (ValidArguments /\ call.left_df.crs # call.right_df.crs) =>
        /\ pc \in {"query", "adjust", "reset_index", "merge", "restore", "done"}
              => warned = <<"crs_mismatch">>
        /\ Done => Returned

\* The column names other than geometry that both tables of the call have.
SharedNames ==
    (Range(call.left_df.columns) \cap Range(call.right_df.columns))
        \ {"geometry"}

\* The names the column x of a side may get: x_suffix, with a number after
\* it when one of the tables already has that name.
SuffixedNames(x, suffix) ==
    LET new_name == x \o "_" \o suffix
    IN  IF new_name \in Range(call.left_df.columns)
                          \cup Range(call.right_df.columns)
        THEN {new_name \o "_" \o ToString(i) : i \in 0..2}
        ELSE {new_name}

HasSuffixedColumns(df) ==
    /\ \A x \in SharedNames :
          /\ \E c \in 1..Len(df.columns) :
                /\ df.src[c] = DataCol("left", x)
                /\ df.columns[c] \in SuffixedNames(x, call.lsuffix)
          /\ \E c \in 1..Len(df.columns) :
                /\ df.src[c] = DataCol("right", x)
                /\ df.columns[c] \in SuffixedNames(x, call.rsuffix)
    /\ Cardinality(Range(df.columns)) = Len(df.columns)

\* C7: a column name x of both tables, geometry apart, is in the joined
\* table as x_lsuffix with the left values and as x_rsuffix with the right
\* values, with a number appended when that name exists already, and no two
\* columns of the joined table have the same name; also when both tables
\* have the same column list.
C7_SharedColumnsGetSuffixes ==
    (ValidArguments /\ SharedNames # {}) =>
        /\ pc = "restore" => HasSuffixedColumns(joined)
        /\ Returned => HasSuffixedColumns(result[1])

\* The columns of a frame that hold the geometry of an input table.
GeometryColumns(df) ==
    {c \in 1..Len(df.columns) :
        df.src[c].kind = "data" /\ df.src[c].key = "geometry"}

PrimarySide == IF call.how = "right" THEN "right" ELSE "left"

OnlyPrimaryGeometry(df) ==
    /\ Cardinality(GeometryColumns(df)) = 1
    /\ \A c \in GeometryColumns(df) : df.src[c].side = PrimarySide

\* C8: the joined table has exactly one geometry column, that of the left
\* table for how='inner' and how='left' and that of the right table for
\* how='right'; the geometry of the other table is not in it.
C8_OneGeometryColumn ==
    ValidArguments =>
        /\ pc = "restore" => OnlyPrimaryGeometry(joined)
        /\ Returned => OnlyPrimaryGeometry(result[1])

\* Every row of the frame has the label its row of the primary table has
\* in that table, and the index has the names of that table's index.
PrimaryIndexRestored(df) ==
    LET primary == IF PrimarySide = "left" THEN call.left_df ELSE call.right_df
        source(k) == IF PrimarySide = "left" THEN df.rows[k].l ELSE df.rows[k].r
    IN  /\ df.names = primary.names
        /\ Len(df.index) = Len(df.rows)
        /\ \A k \in 1..Len(df.rows) :
              /\ source(k) # None
              /\ df.index[k] = primary.index[source(k)[1]]

\* C9: once the join of the reset tables is made, the call returns it with
\* the index restored: its rows carry the row labels of the rows of the
\* primary table they come from, with the index names of that table, an
\* unnamed level unnamed again, for a single-level and for a multi-level
\* index.
C9_IndexRoundTrip ==
    (ValidArguments /\ Done /\ joined # NoFrame) =>
        Returned /\ PrimaryIndexRestored(result[1])

\* The frame has the column name, and it holds in every row the distance
\* of the two geometries of the row, NaN where one of them is missing.
HoldsDistances(df, name) ==
    /\ \E c \in 1..Len(df.columns) :
          df.columns[c] = name /\ df.src[c] = DataCol("distance", name)
    /\ \A k \in 1..Len(df.rows) :
          /\ "d" \in DOMAIN df.rows[k]
          /\ df.rows[k].d =
                IF df.rows[k].l = None \/ df.rows[k].r = None THEN NaN
                ELSE <<Distance(call.left_df.geometry[df.rows[k].l[1]],
                                call.right_df.geometry[df.rows[k].r[1]])>>

\* C10: sjoin_nearest called with distance_col returns, once the join is
\* made, a table with that column, which holds for a matched row the
\* distance between its two geometries and NaN for a row that a left or
\* right join kept without a partner.
C10_DistanceColumn ==
    (/\ call.fn = "sjoin_nearest" /\ call.distance_col # None
     /\ ValidArguments /\ Done /\ joined # NoFrame) =>
        Returned /\ HoldsDistances(result[1], call.distance_col[1])

\* The right positions the query of the call pairs with the left position l.
Partners(l) ==
    {InnerPairs[k].r : k \in {j \in 1..Len(InnerPairs) : InnerPairs[j].l = l}}

\* The left positions with more than one nearest right row.
TiedLeftRows ==
    {l \in 1..NRows(call.left_df) : Cardinality(Partners(l)) > 1}

\* The frame has, for every tied left row, exactly one row per tied right
\* row and no other row of that left row.
FansOut(df) ==
    \A l \in TiedLeftRows :
        /\ \A r \in Partners(l) : Count(df.rows, <<l>>, <<r>>) = 1
        /\ Cardinality({k \in 1..Len(df.rows) : df.rows[k].l = <<l>>})
             = Cardinality(Partners(l))

\* C11: when a left row has k right rows at the same minimal distance,
\* sjoin_nearest gives k rows for that left row, one per tied right row,
\* and returns them with the distance of the tie in distance_col (0 for two
\* right rows that both touch the left one).
C11_NearestTiesFanOut ==
    (call.fn = "sjoin_nearest" /\ ValidArguments /\ TiedLeftRows # {}) =>
        /\ pc = "restore" => FansOut(joined)
        /\ (Done /\ joined # NoFrame) =>
              /\ Returned
              /\ FansOut(result[1])
              /\ call.distance_col # None =>
                    HoldsDistances(result[1], call.distance_col[1])

\* The pairs of row labels of the position pairs on which the predicate
\* holds and the two rows have the same value in every column of
\* on_attribute, a missing value being the same as a missing value.
SharedAttributePairs ==
    LET matches == SindexQuery(call.left_df, call.right_df, call.predicate,
                               call.distance)
        same(k) ==
            \A a \in 1..Len(call.on_attribute) :
                Cell(call.left_df, matches[k].l, call.on_attribute[a])
                    = Cell(call.right_df, matches[k].r, call.on_attribute[a])
        kept == Where([k \in 1..Len(matches) |-> same(k)])
    IN  [j \in 1..Len(kept) |->
            [l |-> call.left_df.index[matches[kept[j]].l],
             r |-> call.right_df.index[matches[kept[j]].r]]]

\* C12: with on_attribute, the query of sjoin raises nothing and keeps a
\* pair (l, r) exactly when the predicate holds of it and row l of the left
\* table has in every listed column the value of row r of the right table,
\* two missing values being equal; rows are compared by position, whatever
\* their labels.
C12_OnAttributeFilter ==
    (call.fn = "sjoin" /\ call.on_attribute # <<>> /\ ValidArguments) =>
        /\ pc = "adjust" => indices = SharedAttributePairs
        /\ Done => error.at \notin {"compare", "mask"}

\* The call of overlay has ended, and it has ended with a table.
OverlayDone == opc = "done"
OverlayReturned == opc = "done" /\ error = NoError /\ oresult # None

\* C13: at every point of a call of sjoin, sjoin_nearest or overlay, and
\* so after it whether it returned or raised, the caller's two tables are
\* what they were when the call was made: columns, values, geometries
\* (repaired ones being written to copies only), index and geometry column
\* name.
C13_InputsUnchanged ==
    /\ ocall.fn = "overlay" => inputs = <<ocall.df1, ocall.df2>>
    /\ ocall.fn = "none" => inputs = <<call.left_df, call.right_df>>

\* The cells the geometries of a table cover, and whether no two rows of
\* the table share a cell.
Extent(t) == UNION {t.geometry[i] : i \in 1..NRows(t)}
Planar(t) ==
    \A i, j \in 1..NRows(t) : i # j => t.geometry[i] \cap t.geometry[j] = {}

\* The name of the attribute column of a table given to overlay.
DataColumn(t) == t.columns[1]

\* The rows the intersection of a and b has: for every row of a, in order,
\* and every row of b that intersects it, the attributes of both and the
\* cells they share.
IntersectionRows(a, b) ==
    Flatten([i \in 1..NRows(a) |->
        LET hits == Where([j \in 1..NRows(b) |->
                              a.geometry[i] \cap b.geometry[j] # {}])
        IN  [k \in 1..Len(hits) |->
                (DataColumn(a) :> a.attr[i]) @@ (DataColumn(b) :> b.attr[hits[k]])
                  @@ ("geometry" :> <<a.geometry[i] \cap b.geometry[hits[k]]>>)]])

\* The rows the difference a minus b has: for every row of a of which
\* something is left outside b, in order, its attribute, no attribute of
\* b, and the cells of the row that no row of b covers.
DifferenceRows(a, b) ==
    LET left(i) == a.geometry[i] \ Extent(b)
        some == Where([i \in 1..NRows(a) |-> left(i) # {}])
    IN  [k \in 1..Len(some) |->
            (DataColumn(a) :> a.attr[some[k]]) @@ (DataColumn(b) :> NaN)
              @@ ("geometry" :> <<left(some[k])>>)]

\* The table has the expected rows, in their order: every expected value
\* is the value of the row in the column of that name (a column the table
\* has not holding no value).
RowsAre(df, expected) ==
    /\ Len(df.rows) = Len(expected)
    /\ \A k \in 1..Len(expected) :
          \A name \in DOMAIN expected[k] :
              IF name \in DOMAIN df.rows[k].cells
              THEN df.rows[k].cells[name] = expected[k][name]
              ELSE expected[k][name] = NaN

\* The cells the geometries of the rows cover, and whether no two of the
\* rows share a cell.
Covered(df) == UNION {df.rows[k].cells["geometry"][1] : k \in 1..Len(df.rows)}
NoDoubleCount(df) ==
    \A i, j \in 1..Len(df.rows) :
        i # j => df.rows[i].cells["geometry"][1]
                    \cap df.rows[j].cells["geometry"][1] = {}

\* C14: overlay with how='union' ends without raising and returns the rows
\* of the intersection followed by the remainders of df1, without values of
\* df2, and the remainders of df2, without values of df1: for the boxes
\* {0, 1} and {1, 2} the three rows {1}, {0} and {2}.
C14_UnionRows ==
    (ocall.fn = "overlay" /\ ocall.how = "union" /\ OverlayDone) =>
        /\ OverlayReturned
        /\ RowsAre(oresult[1],
                   IntersectionRows(ocall.df1, ocall.df2)
                     \o DifferenceRows(ocall.df1, ocall.df2)
                     \o DifferenceRows(ocall.df2, ocall.df1))

\* C15: for tables A and B whose own rows do not overlap, the results of
\* the intersection, of A minus B and of B minus A partition the result of
\* the union: the union covers the extent of A and of B, the intersection
\* what A and B share, a difference what its first table has alone, and no
\* result covers a cell twice.
C15_OverlayPartition ==
    (/\ ocall.fn = "overlay" /\ OverlayDone
     /\ ocall.how \in {"union", "intersection", "difference"}
     /\ Planar(ocall.df1) /\ Planar(ocall.df2)) =>
        /\ OverlayReturned
        /\ NoDoubleCount(oresult[1])
        /\ Covered(oresult[1]) =
              CASE ocall.how = "union" ->
                      Extent(ocall.df1) \cup Extent(ocall.df2)
                [] ocall.how = "intersection" ->
                      Extent(ocall.df1) \cap Extent(ocall.df2)
                [] ocall.how = "difference" ->
                      Extent(ocall.df1) \ Extent(ocall.df2)

\* C16: overlay with how='difference' returns at most one row per row of
\* df1, with the geometry of that row minus every geometry of df2 that
\* intersects it: no returned geometry shares a cell with a geometry of
\* df2, and a row of df1 that intersects no row of df2 keeps its geometry.
C16_DifferenceRows ==
    (ocall.fn = "overlay" /\ ocall.how = "difference" /\ OverlayDone) =>
        /\ OverlayReturned
        /\ Len(oresult[1].rows) <= NRows(ocall.df1)
        /\ Covered(oresult[1]) \cap Extent(ocall.df2) = {}
        /\ RowsAre(oresult[1], DifferenceRows(ocall.df1, ocall.df2))

\* C17: overlay with how='intersection' returns exactly one row for each
\* pair of a row of df1 and a row of df2 that intersect, with the cells the
\* two share and the attributes of both: for the boxes {0, 1} and {1, 2}
\* the single row {1}.
C17_IntersectionRows ==
    (ocall.fn = "overlay" /\ ocall.how = "intersection" /\ OverlayDone) =>
        /\ OverlayReturned
        /\ RowsAre(oresult[1], IntersectionRows(ocall.df1, ocall.df2))

\* C18: overlay with how='symmetric_difference' returns, for every
\* keep_geom_type and also for tables of different geometry types, the rows
\* of the difference A minus B followed by the rows of the difference B
\* minus A.
C18_SymmetricDifferenceRows ==
    (/\ ocall.fn = "overlay" /\ ocall.how = "symmetric_difference"
     /\ OverlayDone) =>
        /\ OverlayReturned
        /\ RowsAre(oresult[1],
                   DifferenceRows(ocall.df1, ocall.df2)
                     \o DifferenceRows(ocall.df2, ocall.df1))

\* C19: overlay with how='identity' returns the rows of the intersection
\* followed by the rows of the difference df1 minus df2, which together
\* cover exactly the extent of df1, and when the rows of df1 do not overlap
\* no cell twice.
C19_IdentityRows ==
    (ocall.fn = "overlay" /\ ocall.how = "identity" /\ OverlayDone) =>
        /\ OverlayReturned
        /\ RowsAre(oresult[1],
                   IntersectionRows(ocall.df1, ocall.df2)
                     \o DifferenceRows(ocall.df1, ocall.df2))
        /\ Covered(oresult[1]) = Extent(ocall.df1)
        /\ (Planar(ocall.df1) /\ Planar(ocall.df2))
              => NoDoubleCount(oresult[1])

\* C20: a call of overlay with a how that is none of the five raises an
\* input error and returns nothing, and it raises before a geometry of its
\* tables has been repaired or replaced: df1, df2 and the caller's tables
\* still have the geometries the call was given.
C20_InvalidHowRaisesFirst ==
    (ocall.fn = "overlay" /\ Primitives(ocall.how) = <<>>) =>
        /\ oresult = None
        /\ OverlayDone => error = Raise("ValueError", "how")
        /\ \A i \in {1, 2} : inputs[i].invalid = <<ocall.df1, ocall.df2>>[i].invalid
        /\ opc \notin {"ensure"} =>
              /\ df1.invalid = ocall.df1.invalid
              /\ df2.invalid = ocall.df2.invalid

\* The five values of how that overlay knows.
ValidHow == ocall.fn = "overlay" /\ Primitives(ocall.how) # <<>>

\* Whether keep_geom_type is enabled: left at None or set to True.
KeepEnabled == ocall.keep_geom_type \in {None, <<TRUE>>}

\* The rows the primitives of the call made, before the filter on the
\* geometry type.
Unfiltered == Concat(parts).rows

\* C21: a call of overlay with one of the five hows returns a table; with
\* keep_geom_type None or True every row of it has the geometry type of
\* the first geometry of df1, and with keep_geom_type False it has every
\* row the operation made, whatever its type.
C21_KeepGeomTypeFilter ==
    (ValidHow /\ OverlayDone) =>
        /\ OverlayReturned
        /\ KeepEnabled =>
              \A k \in 1..Len(oresult[1].rows) :
                  oresult[1].rows[k].type = ocall.df1.geom_type
        /\ ~KeepEnabled => Len(oresult[1].rows) = Len(Unfiltered)

\* C22: a call of overlay with one of the five hows returns a table, and
\* has warned about keep_geom_type exactly when keep_geom_type is None or
\* True and the filter on the geometry type dropped a row.
C22_KeepGeomTypeWarning ==
    (ValidHow /\ OverlayDone) =>
        /\ OverlayReturned
        /\ "keep_geom_type" \in Range(warned)
              <=> (KeepEnabled /\ Len(oresult[1].rows) < Len(Unfiltered))

\* A call of overlay with make_valid=False on tables of which a geometry
\* is invalid.
InvalidUnrepaired ==
    /\ ocall.fn = "overlay"
    /\ ~ocall.make_valid
    /\ ocall.df1.invalid \cup ocall.df2.invalid # {}

C24_CrsAndRangeIndex ==
    (ValidHow /\ OverlayDone) =>
        /\ OverlayReturned
        /\ oresult[1].crs = ocall.df1.crs
        /\ \A k \in 1..Len(oresult[1].rows) :
              oresult[1].rows[k].index = <<k - 1>>

\* The call of a tool has ended, and it has returned the value v.
ToolDone == tpc = "done"
ToolReturned(v) == tpc = "done" /\ terror = NoError /\ tresult = <<v>>

\* The series of the call holds k geometries, none of them None, all of
\* the single-part type t.
SeriesOf(t, k) ==
    /\ tcall.fn = "collect" /\ tcall.kind = "series"
    /\ Len(tcall.x) = k
    /\ \A i \in 1..k : tcall.x[i] # None /\ tcall.x[i].geom_type = t

C26_CollectEmpty ==
    (ToolDone /\ tcall.fn = "collect" /\ tcall.kind = "series"
       /\ tcall.x = <<>>) => ToolReturned(None)

\* The rows the frame of the call has in the database, in frame order.
FrameRows == _convert_to_ewkb(tcall.gdf, _get_srid_from_crs(tcall.gdf))

\* C27: when a call of _write_postgis has ended: if the table did not
\* exist it raised nothing and the table exists with the rows of the frame
\* in frame order, for 'fail', 'append' and 'replace'; if it existed,
\* 'fail' raised ValueError and the rows are those before the call,
\* 'append' (of a frame with the columns of the table) left the rows
\* before the call followed by the rows of the frame, and 'replace' left
\* the rows of the frame.
C27_IfExistsPolicy ==
    (ToolDone /\ tcall.fn = "_write_postgis") =>
        LET table == db[tcall.name]
        IN  /\ ~tcall.existed =>
                  /\ terror = NoError
                  /\ table.exists
                  /\ table.rows = FrameRows
            /\ (tcall.existed /\ tcall.if_exists = "fail") =>
                  /\ terror.type = "ValueError"
                  /\ table.rows = tcall.before
            /\ (tcall.existed /\ tcall.if_exists = "append"
                   /\ Range(tcall.gdf.columns) \subseteq Range(table.columns)) =>
                  /\ terror = NoError
                  /\ table.rows = tcall.before \o FrameRows
            /\ (tcall.existed /\ tcall.if_exists = "replace") =>
                  /\ terror = NoError
                  /\ table.rows = FrameRows

\* C28: a call of sjoin or sjoin_nearest that fails a validation (how,
\* 'dwithin' without a distance, max_distance not positive, on_attribute,
\* an argument that is no GeoDataFrame) has at no point warned about a CRS
\* mismatch nor built the spatial index of the right table.
C28_ValidationBeforeAnythingElse ==
    (call.fn \in {"sjoin", "sjoin_nearest"} /\ BadArguments) =>
        /\ "crs_mismatch" \notin Range(warned)
        /\ ~sindex_built

\* The columns of the two tables whose values the joined table holds: all
\* of them but the geometry of the table that is not the primary one.
InputColumns ==
    ({DataCol("left", x) : x \in Range(call.left_df.columns)}
        \cup {DataCol("right", x) : x \in Range(call.right_df.columns)})
        \ {DataCol(IF PrimarySide = "left" THEN "right" ELSE "left",
                    "geometry")}

\* The columns of the frame have pairwise distinct names, and every input
\* column and every level of the index of the other table is the source of
\* one of them.
DistinctAndComplete(df) ==
    LET other == IF PrimarySide = "left" THEN "right" ELSE "left"
        levels == IF other = "left" THEN Len(call.left_df.names)
                  ELSE Len(call.right_df.names)
    IN  /\ Cardinality(Range(df.columns)) = Len(df.columns)
        /\ \A c \in InputColumns : c \in Range(df.src)
        /\ \A i \in 1..levels : LevelCol(other, i) \in Range(df.src)

\* C29: for two tables that pass the validation, each with pairwise
\* distinct column names, the joined table has pairwise distinct column
\* names and holds the values of every input column and of the index of
\* the other table, renamed where names collide; the call returns that
\* table.
C29_DistinctColumnNames ==
    (call.fn = "sjoin" /\ ValidArguments) =>
        /\ pc = "restore" => DistinctAndComplete(joined)
        /\ Done => Returned /\ DistinctAndComplete(result[1])

\* The cell of the k-th point of the call, and whether two cells are
\* neighbours on the grid.
HilbertCell(k) == <<tcall.bounds[k][1], tcall.bounds[k][2]>>
GridNeighbours(a, b) ==
    \/ a[1] = b[1] /\ (a[2] - b[2] = 1 \/ b[2] - a[2] = 1)
    \/ a[2] = b[2] /\ (a[1] - b[1] = 1 \/ b[1] - a[1] = 1)

\* C30: _hilbert_distance returns, for the cells (x, y) of the grid of the
\* level, distances in 0..4^level - 1 that fit 64 bits; the cell (0, 0)
\* has distance 0, two different cells have different distances, and two
\* cells whose distances differ by 1 are neighbours on the grid.
C30_HilbertDistance ==
    (ToolDone /\ tcall.fn = "_hilbert_distance") =>
        /\ terror = NoError
        /\ LET h == tresult[1]
           IN  /\ \A k \in 1..2 :
                     /\ h[k] \in 0..(Pow2(2 * tcall.level) - 1)
                     /\ h[k] >= 0 /\ BitLength(h[k]) <= 64
                     /\ HilbertCell(k) = <<0, 0>> => h[k] = 0
               /\ HilbertCell(1) # HilbertCell(2) => h[1] # h[2]
               /\ (h[1] - h[2] = 1 \/ h[2] - h[1] = 1)
                     => GridNeighbours(HilbertCell(1), HilbertCell(2))
====
